---- MODULE Spec2Model ----
(***************************************************************************)
(* Model of the canvas-frames-video server (src/server.js; the class       *)
(* CanvasVideo of src/unnamed/part_000 has the same handlers).             *)
(*                                                                         *)
(* A client connects over a WebSocket, sends frame messages                *)
(* "<key>data:image/png;base64,<payload>", and closes.  Each message       *)
(* starts an asynchronous file write; the close handler runs the pipeline  *)
(* sortFrameFiles -> convertFramesToVideo -> deleteFrames.                 *)
(*                                                                         *)
(* Strings are sequences of one-character strings.  Two literals the code  *)
(* searches for are kept as single tokens: MARK, the data-URL header       *)
(* 'data:image/png;base64,', and PNG, the suffix '.png'.                   *)
(***************************************************************************)
EXTENDS Integers, Sequences, FiniteSets, TLC

\* ------------------------------------------------------------------ bounds
\* The number of messages one client sends before it closes.
MaxFrames == 2

\* ------------------------------------------------------------ string model
MARK == "data:image/png;base64,"
PNG == ".png"

DigitChars == <<"0", "1", "2", "3", "4", "5", "6", "7", "8", "9">>

IsDigit(c) == \E i \in 1..Len(DigitChars) : DigitChars[i] = c

DigitVal(c) == (CHOOSE i \in 1..Len(DigitChars) : DigitChars[i] = c) - 1

\* The characters of the header literal, for code that reads it as text.
MarkerChars ==
  << "d", "a", "t", "a", ":", "i", "m", "a", "g", "e", "/", "p", "n", "g",
     ";", "b", "a", "s", "e", "6", "4", "," >>

\* String.prototype.split(MARK): the segments between the occurrences of MARK.
RECURSIVE SplitFrom(_, _, _)
SplitFrom(str, i, cur) ==
  IF i > Len(str) THEN <<cur>>
  ELSE IF str[i] = MARK THEN <<cur>> \o SplitFrom(str, i + 1, <<>>)
  ELSE SplitFrom(str, i + 1, Append(cur, str[i]))

Split(str) == SplitFrom(str, 1, <<>>)

\* String.prototype.replace('.png', ''): drops the first occurrence of PNG.
RECURSIVE ReplacePng(_)
ReplacePng(str) ==
  IF str = <<>> THEN <<>>
  ELSE IF Head(str) = PNG THEN Tail(str)
  ELSE <<Head(str)>> \o ReplacePng(Tail(str))

\* Unary plus on a string: the empty string is 0, a digit string its decimal
\* value, and anything else NaN (IsNumeric is false).
IsNumeric(str) == \A i \in 1..Len(str) : IsDigit(str[i])

RECURSIVE ToNumber(_)
ToNumber(str) ==
  IF str = <<>> THEN 0
  ELSE 10 * ToNumber(SubSeq(str, 1, Len(str) - 1)) + DigitVal(str[Len(str)])

\* Template literal `${i}`: the decimal digits of a non-negative integer.
RECURSIVE NumToString(_)
NumToString(i) ==
  IF i < 10 THEN <<DigitChars[i + 1]>>
  ELSE NumToString(i \div 10) \o <<DigitChars[(i % 10) + 1]>>

\* `${x}.png`
PngName(stem) == stem \o <<PNG>>

\* ------------------------------------------------------------------ base64
B64Chars ==
  << "A", "B", "C", "D", "E", "F", "G", "H", "I", "J", "K", "L", "M", "N", "O",
     "P", "Q", "R", "S", "T", "U", "V", "W", "X", "Y", "Z", "a", "b", "c", "d",
     "e", "f", "g", "h", "i", "j", "k", "l", "m", "n", "o", "p", "q", "r", "s",
     "t", "u", "v", "w", "x", "y", "z", "0", "1", "2", "3", "4", "5", "6", "7",
     "8", "9", "+", "/" >>

IsB64(c) == \E i \in 1..Len(B64Chars) : B64Chars[i] = c

B64Val(c) == (CHOOSE i \in 1..Len(B64Chars) : B64Chars[i] = c) - 1

\* The legal characters before the first '=': Node's decoder skips illegal
\* characters and stops at the padding.
RECURSIVE Sextets(_)
Sextets(str) ==
  IF str = <<>> THEN <<>>
  ELSE IF Head(str) = "=" THEN <<>>
  ELSE IF IsB64(Head(str)) THEN <<B64Val(Head(str))>> \o Sextets(Tail(str))
  ELSE Sextets(Tail(str))

\* Four sextets give three bytes; a trailing group of two gives one byte, of
\* three gives two bytes, and a single trailing sextet gives none.
RECURSIVE BytesOf(_)
BytesOf(sx) ==
  IF Len(sx) >= 4 THEN
    LET v == ((sx[1] * 64 + sx[2]) * 64 + sx[3]) * 64 + sx[4]
    IN  <<v \div 65536, (v \div 256) % 256, v % 256>>
          \o BytesOf(SubSeq(sx, 5, Len(sx)))
  ELSE IF Len(sx) = 3 THEN
    LET v == ((sx[1] * 64 + sx[2]) * 64 + sx[3]) \div 4
    IN  <<v \div 256, v % 256>>
  ELSE IF Len(sx) = 2 THEN <<(sx[1] * 64 + sx[2]) \div 16>>
  ELSE <<>>

\* Buffer.from(str, 'base64')
Base64Decode(str) == BytesOf(Sextets(str))

\* ------------------------------------------------------------- file system
\* A directory is a function from file names to file contents.
EmptyDir == [n \in {} |-> <<>>]

Put(dir, name, data) ==
  [n \in (DOMAIN dir) \cup {name} |-> IF n = name THEN data ELSE dir[n]]

Remove(dir, name) == [n \in (DOMAIN dir) \ {name} |-> dir[n]]

\* fs.rename(src, dst) on an existing src: dst is replaced without notice;
\* renaming a file to itself changes nothing.
RenameFile(dir, src, dst) ==
  IF src = dst THEN dir ELSE Put(Remove(dir, src), dst, dir[src])

\* fs.readdir gives the names in an order the code does not control.
Orderings(S) ==
  {f \in [1..Cardinality(S) -> S] :
     \A i, j \in 1..Cardinality(S) : i # j => f[i] # f[j]}

\* --------------------------------------------------------- writeFrameToFile
\* const [sequentialKey, imgStr] = msg.split('data:image/png;base64,')
SequentialKey(msg) == Split(msg)[1]

HasImgStr(msg) == Len(Split(msg)) >= 2

\* Variant: a split with a limit, keeping all the text after the first header.
RECURSIVE JoinFrom(_, _)
JoinFrom(parts, i) ==
  IF i > Len(parts) THEN <<>>
  ELSE IF i = Len(parts) THEN parts[i]
  ELSE parts[i] \o MarkerChars \o JoinFrom(parts, i + 1)

ImgStrWholeRemainder(msg) == JoinFrom(Split(msg), 2)

ImgStr(msg) == Split(msg)[2]

\* path.join(sessionDir, `${sequentialKey}.png`)
FramePath(msg) == PngName(SequentialKey(msg))

\* fs.writeFile(path, undefined, 'base64'): depending on the Node release the
\* call is rejected before the file is opened, rejected after the file was
\* created empty, or the text 'undefined' is decoded and written.
UndefinedText == <<"u", "n", "d", "e", "f", "i", "n", "e", "d">>

UndefinedDataContents == {<<>>, Base64Decode(UndefinedText)}

\* ----------------------------------------------------------- sortFrameFiles
\* Variant: filenames.sort() without a compare function orders the names as
\* strings, by character code.
CharCode(c) ==
  IF IsDigit(c) THEN 48 + DigitVal(c) ELSE IF c = PNG THEN 46 ELSE 100

RECURSIVE LexCompareFn(_, _)
LexCompareFn(a, b) ==
  IF a = <<>> /\ b = <<>> THEN 0
  ELSE IF a = <<>> THEN 0 - 1
  ELSE IF b = <<>> THEN 1
  ELSE IF CharCode(Head(a)) # CharCode(Head(b))
       THEN CharCode(Head(a)) - CharCode(Head(b))
  ELSE LexCompareFn(Tail(a), Tail(b))

\* Variant: (a, b) => +b.replace('.png', '') - +a.replace('.png', ''), the
\* largest key first.
CompareFnDescending(a, b) ==
  IF IsNumeric(ReplacePng(a)) /\ IsNumeric(ReplacePng(b))
  THEN ToNumber(ReplacePng(b)) - ToNumber(ReplacePng(a))
  ELSE 0

\* (a, b) => +a.replace('.png', '') - +b.replace('.png', '')
\* A NaN difference is given as 0: it is neither < 0 nor > 0.
CompareFn(a, b) ==
  IF IsNumeric(ReplacePng(a)) /\ IsNumeric(ReplacePng(b))
  THEN ToNumber(ReplacePng(a)) - ToNumber(ReplacePng(b))
  ELSE 0

\* Array.prototype.sort(compareFn), stable: an element goes before the first
\* one it compares below.
RECURSIVE InsertSorted(_, _)
InsertSorted(x, sorted) ==
  IF sorted = <<>> THEN <<x>>
  ELSE IF CompareFn(x, Head(sorted)) < 0 THEN <<x>> \o sorted
  ELSE <<Head(sorted)>> \o InsertSorted(x, Tail(sorted))

RECURSIVE SortPrefix(_, _)
SortPrefix(list, n) ==
  IF n = 0 THEN <<>> ELSE InsertSorted(list[n], SortPrefix(list, n - 1))

SortFiles(filenames) == SortPrefix(filenames, Len(filenames))

\* Variant: targets numbered from 1.
RenamesOfOneBased(sorted) ==
  {[src |-> sorted[i], dst |-> PngName(NumToString(i))] : i \in 1..Len(sorted)}

\* sortedFiles.map((filename, i) => fs.rename(filename, `${i}.png`))
RenamesOf(sorted) ==
  {[src |-> sorted[i], dst |-> PngName(NumToString(i - 1))] :
     i \in 1..Len(sorted)}

\* ----------------------------------------------------------------- inputs
Sessions == {"s1", "s2"}

KeySet == {<<"0">>, <<"1">>, <<"2">>, <<"1", "0">>}

PayloadSet == {<<"Q", "Q", "=", "=">>, <<"Q", "g", "=", "=">>}

FrameMsg(key, payload) == key \o <<MARK>> \o payload

\* A message without the header, and one that holds the header twice.
DoneMsg == <<"d", "o", "n", "e">>

TwoMarkerMsg ==
  <<"1", MARK, "Q", "U", "F", "B", MARK, "Q", "g", "=", "=">>

Messages ==
  {FrameMsg(k, p) : k \in KeySet, p \in PayloadSet}
    \cup {DoneMsg, TwoMarkerMsg}

\* ------------------------------------------------------------------ state
VARIABLES
  clients,              \* the sessions whose client connects in this run
  ws,                   \* the socket: "none", "open", "closed"
  registered,           \* the message and close handlers are attached
  sent,                 \* messages the client has sent
  doneSignals,          \* messages without the header that the handler took
  dirExists,            \* <outputDir>/<clientId> exists
  files,                \* the files of <outputDir>/<clientId>
  video,                \* <outputDir>/<clientId>.mp4
  pendingWrites,        \* fs.writeFile calls not yet settled
  pc,                   \* where the close handler's async function stands
  pipelineRuns,         \* how often the close handler's function was started
  sortedFiles,          \* the sorted listing of sortFrameFiles
  pendingRenames,       \* fs.rename calls not yet settled
  snapshot,             \* the directory as sortFrameFiles listed it
  spawns,               \* ffmpeg processes spawned
  encExit,              \* exit status of ffmpeg: "none", "zero", "nonzero"
  convertResult,        \* convertFramesToVideo: "none", "created", "error"
  failedAt,             \* the step whose rejection ended the pipeline
  startedWithPending,   \* writes were unsettled when the pipeline started
  wroteDuringPipeline   \* a write took effect while the pipeline was running

vars ==
  << clients, ws, registered, sent, doneSignals, dirExists, files, video,
     pendingWrites, pc, pipelineRuns, sortedFiles, pendingRenames, snapshot,
     spawns, encExit, convertResult, failedAt, startedWithPending,
     wroteDuringPipeline >>

NoVideo == [kind |-> "none", frames |-> <<>>]

RunningSteps ==
  {"sort_readdir", "renaming", "probe_readdir", "probing", "encoding",
   "deleting"}

Running(s) == pc[s] \in RunningSteps

Completed(s) == pc[s] \in {"done", "failed"}

InitWith(cs) ==
  /\ clients = cs
  /\ ws = [s \in Sessions |-> "none"]
  /\ registered = [s \in Sessions |-> FALSE]
  /\ sent = [s \in Sessions |-> 0]
  /\ doneSignals = [s \in Sessions |-> 0]
  /\ dirExists = [s \in Sessions |-> FALSE]
  /\ files = [s \in Sessions |-> EmptyDir]
  /\ video = [s \in Sessions |-> NoVideo]
  /\ pendingWrites = [s \in Sessions |-> {}]
  /\ pc = [s \in Sessions |-> "idle"]
  /\ pipelineRuns = [s \in Sessions |-> 0]
  /\ sortedFiles = [s \in Sessions |-> <<>>]
  /\ pendingRenames = [s \in Sessions |-> {}]
  /\ snapshot = [s \in Sessions |-> EmptyDir]
  /\ spawns = [s \in Sessions |-> 0]
  /\ encExit = [s \in Sessions |-> "none"]
  /\ convertResult = [s \in Sessions |-> "none"]
  /\ failedAt = [s \in Sessions |-> "none"]
  /\ startedWithPending = [s \in Sessions |-> FALSE]
  /\ wroteDuringPipeline = [s \in Sessions |-> FALSE]

Init == InitWith({"s1"})

\* ------------------------------------------------- handleClientConnection
\* Variant: the listeners are attached first and fs.mkdir is issued after.
ConnectAttachesFirst(s) ==
  /\ s \in clients
  /\ ws[s] = "none"
  /\ ws' = [ws EXCEPT ![s] = "open"]
  /\ registered' = [registered EXCEPT ![s] = TRUE]
  /\ UNCHANGED << clients, sent, doneSignals, dirExists, files, video,
                  pendingWrites, pc, pipelineRuns, sortedFiles, pendingRenames,
                  snapshot, spawns, encExit, convertResult, failedAt,
                  startedWithPending, wroteDuringPipeline >>

\* wss.on('connection'): handleClientConnection runs up to
\* `await fs.mkdir(sessionDir, { recursive: true })`.
Connect(s) ==
  /\ s \in clients
  /\ ws[s] = "none"
  /\ ws' = [ws EXCEPT ![s] = "open"]
  /\ UNCHANGED << clients, registered, sent, doneSignals, dirExists, files,
                  video, pendingWrites, pc, pipelineRuns, sortedFiles,
                  pendingRenames, snapshot, spawns, encExit, convertResult,
                  failedAt, startedWithPending, wroteDuringPipeline >>

\* fs.mkdir resolves; ws.on('message', ...) and ws.on('close', ...) follow.
MkdirDone(s) ==
  /\ ws[s] # "none"
  /\ ~registered[s]
  /\ dirExists' = [dirExists EXCEPT ![s] = TRUE]
  /\ registered' = [registered EXCEPT ![s] = TRUE]
  /\ UNCHANGED << clients, ws, sent, doneSignals, files, video, pendingWrites,
                  pc, pipelineRuns, sortedFiles, pendingRenames, snapshot,
                  spawns, encExit, convertResult, failedAt, startedWithPending,
                  wroteDuringPipeline >>

\* Variant: a handler that takes a message without the header as the end of
\* the session and starts the pipeline, with nothing that remembers it did.
OnMessageEndsSession(s, msg) ==
  /\ HasImgStr(msg) =>
       /\ pendingWrites' =
            [pendingWrites EXCEPT ![s] = @ \cup {[msg |-> msg, seq |-> sent'[s],
                   overtaken |-> FALSE]}]
       /\ UNCHANGED << doneSignals, pc, pipelineRuns, startedWithPending >>
  /\ ~HasImgStr(msg) =>
       /\ doneSignals' = [doneSignals EXCEPT ![s] = @ + 1]
       /\ pc' = [pc EXCEPT ![s] = "sort_readdir"]
       /\ pipelineRuns' = [pipelineRuns EXCEPT ![s] = @ + 1]
       /\ startedWithPending' =
            [startedWithPending EXCEPT ![s] = pendingWrites[s] # {}]
       /\ UNCHANGED pendingWrites

\* msg => writeFrameToFile(msg, sessionDir): the call splits the message and
\* leaves fs.writeFile in flight; nothing awaits it.
OnMessage(s, msg) ==
  /\ pendingWrites' =
       [pendingWrites EXCEPT ![s] = @ \cup {[msg |-> msg, seq |-> sent'[s],
                   overtaken |-> FALSE]}]
  /\ doneSignals' =
       [doneSignals EXCEPT ![s] = IF HasImgStr(msg) THEN @ ELSE @ + 1]
  /\ UNCHANGED << pc, pipelineRuns, startedWithPending >>

\* The client sends a message.  Before the handlers are attached the 'message'
\* event has no listener and the message is dropped.
Send(s, msg) ==
  /\ ws[s] = "open"
  /\ sent[s] < MaxFrames
  /\ sent' = [sent EXCEPT ![s] = @ + 1]
  /\ IF registered[s]
     THEN OnMessage(s, msg)
     ELSE UNCHANGED << pendingWrites, doneSignals, pc, pipelineRuns,
                       startedWithPending >>
  /\ UNCHANGED << clients, ws, registered, dirExists, files, video,
                  sortedFiles, pendingRenames, snapshot, spawns, encExit,
                  convertResult, failedAt, wroteDuringPipeline >>

\* The 'close' listener: the async function runs up to the fs.readdir of
\* sortFrameFiles.
OnClose(s) ==
  /\ pc' = [pc EXCEPT ![s] = "sort_readdir"]
  /\ pipelineRuns' = [pipelineRuns EXCEPT ![s] = @ + 1]
  /\ startedWithPending' =
       [startedWithPending EXCEPT ![s] = pendingWrites[s] # {}]

\* The connection closes.  'close' is emitted once; without a listener it is
\* lost.
Close(s) ==
  /\ ws[s] = "open"
  /\ ws' = [ws EXCEPT ![s] = "closed"]
  /\ IF registered[s]
     THEN OnClose(s)
     ELSE UNCHANGED << pc, pipelineRuns, startedWithPending >>
  /\ UNCHANGED << clients, registered, sent, doneSignals, dirExists, files,
                  video, pendingWrites, sortedFiles, pendingRenames, snapshot,
                  spawns, encExit, convertResult, failedAt,
                  wroteDuringPipeline >>

\* ------------------------------------------------------ fs.writeFile settles
\* The file a settled write leaves: <key>.png holding the decoded image text.
WrittenDir(dir, msg) == Put(dir, FramePath(msg), Base64Decode(ImgStr(msg)))

\* The writes still in flight once w has settled on its file: a write to the
\* same path whose message arrived before w's has been overtaken.
Overtake(pending, w) ==
  { IF FramePath(v.msg) = FramePath(w.msg) /\ v.seq < w.seq
    THEN [v EXCEPT !.overtaken = TRUE]
    ELSE v : v \in pending \ {w} }

WriteLands(s, w) ==
  /\ w \in pendingWrites[s]
  /\ dirExists[s]
  /\ HasImgStr(w.msg)
  /\ files' = [files EXCEPT ![s] = WrittenDir(@, w.msg)]
  /\ pendingWrites' = [pendingWrites EXCEPT ![s] = Overtake(@, w)]
  /\ wroteDuringPipeline' =
       [wroteDuringPipeline EXCEPT ![s] = @ \/ Running(s)]
  /\ UNCHANGED << clients, ws, registered, sent, doneSignals, dirExists, video,
                  pc, pipelineRuns, sortedFiles, pendingRenames, snapshot,
                  spawns, encExit, convertResult, failedAt,
                  startedWithPending >>

\* A message without the header: imgStr is undefined, and the call is
\* rejected, but it may leave a file (see UndefinedDataContents).
WriteUndefinedLeavesFile(s, w, data) ==
  /\ w \in pendingWrites[s]
  /\ dirExists[s]
  /\ ~HasImgStr(w.msg)
  /\ data \in UndefinedDataContents
  /\ files' = [files EXCEPT ![s] = Put(@, FramePath(w.msg), data)]
  /\ pendingWrites' = [pendingWrites EXCEPT ![s] = @ \ {w}]
  /\ wroteDuringPipeline' =
       [wroteDuringPipeline EXCEPT ![s] = @ \/ Running(s)]
  /\ UNCHANGED << clients, ws, registered, sent, doneSignals, dirExists, video,
                  pc, pipelineRuns, sortedFiles, pendingRenames, snapshot,
                  spawns, encExit, convertResult, failedAt,
                  startedWithPending >>

\* Variant: a rejected write that ends the connection's handlers and drops
\* the writes still in flight.
WriteFailsStopsSession(s, w) ==
  /\ w \in pendingWrites[s]
  /\ pendingWrites' = [pendingWrites EXCEPT ![s] = {}]
  /\ registered' = [registered EXCEPT ![s] = FALSE]
  /\ UNCHANGED << clients, ws, sent, doneSignals, dirExists, files, video, pc,
                  pipelineRuns, sortedFiles, pendingRenames, snapshot, spawns,
                  encExit, convertResult, failedAt, startedWithPending,
                  wroteDuringPipeline >>

\* The write is rejected (no directory, no space, undefined data) and leaves
\* nothing: the rejection is unhandled and the session goes on.
WriteFails(s, w) ==
  /\ w \in pendingWrites[s]
  /\ pendingWrites' = [pendingWrites EXCEPT ![s] = @ \ {w}]
  /\ UNCHANGED << clients, ws, registered, sent, doneSignals, dirExists, files,
                  video, pc, pipelineRuns, sortedFiles, pendingRenames,
                  snapshot, spawns, encExit, convertResult, failedAt,
                  startedWithPending, wroteDuringPipeline >>

\* ----------------------------------------------------------- sortFrameFiles
\* Variant: the renames are issued and not awaited.
RenamesNotAwaited(pending) == TRUE

\* await Promise.all(renames): the function goes on once no rename is left.
RenamesSettled(pending) == pending = {}

\* fs.readdir resolves; the listing is sorted and every rename is issued at
\* once.  With nothing to rename, Promise.all([]) resolves and
\* convertFramesToVideo starts its own fs.readdir.
SortReaddir(s, listing) ==
  /\ pc[s] = "sort_readdir"
  /\ listing \in Orderings(DOMAIN files[s])
  /\ snapshot' = [snapshot EXCEPT ![s] = files[s]]
  /\ sortedFiles' = [sortedFiles EXCEPT ![s] = SortFiles(listing)]
  /\ pendingRenames' = [pendingRenames EXCEPT ![s] = RenamesOf(sortedFiles'[s])]
  /\ pc' = [pc EXCEPT ![s] = IF RenamesSettled(pendingRenames'[s])
                             THEN "probe_readdir" ELSE "renaming"]
  /\ UNCHANGED << clients, ws, registered, sent, doneSignals, dirExists, files,
                  video, pendingWrites, pipelineRuns, spawns, encExit,
                  convertResult, failedAt, startedWithPending,
                  wroteDuringPipeline >>

\* fs.readdir is rejected: the rejection leaves the close handler's function
\* and nothing after it runs.
SortReaddirFails(s) ==
  /\ pc[s] = "sort_readdir"
  /\ pc' = [pc EXCEPT ![s] = "failed"]
  /\ failedAt' = [failedAt EXCEPT ![s] = "sort"]
  /\ UNCHANGED << clients, ws, registered, sent, doneSignals, dirExists, files,
                  video, pendingWrites, pipelineRuns, sortedFiles,
                  pendingRenames, snapshot, spawns, encExit, convertResult,
                  startedWithPending, wroteDuringPipeline >>

\* One fs.rename takes effect.  The renames run on the thread pool and take
\* effect in any order.
RenameLands(s, r) ==
  /\ r \in pendingRenames[s]
  /\ dirExists[s]
  /\ r.src \in DOMAIN files[s]
  /\ files' = [files EXCEPT ![s] = RenameFile(@, r.src, r.dst)]
  /\ pendingRenames' = [pendingRenames EXCEPT ![s] = @ \ {r}]
  /\ pc' = [pc EXCEPT ![s] =
              IF @ = "renaming" /\ RenamesSettled(pendingRenames'[s])
              THEN "probe_readdir" ELSE @]
  /\ UNCHANGED << clients, ws, registered, sent, doneSignals, dirExists, video,
                  pendingWrites, pipelineRuns, sortedFiles, snapshot, spawns,
                  encExit, convertResult, failedAt, startedWithPending,
                  wroteDuringPipeline >>

\* One fs.rename is rejected: Promise.all rejects at once, while the other
\* renames stay in flight.
RenameFails(s, r) ==
  /\ r \in pendingRenames[s]
  /\ pendingRenames' = [pendingRenames EXCEPT ![s] = @ \ {r}]
  /\ pc' = [pc EXCEPT ![s] = IF @ = "renaming" THEN "failed" ELSE @]
  /\ failedAt' = [failedAt EXCEPT ![s] = IF pc[s] = "renaming" THEN "sort" ELSE @]
  /\ UNCHANGED << clients, ws, registered, sent, doneSignals, dirExists, files,
                  video, pendingWrites, pipelineRuns, sortedFiles, snapshot,
                  spawns, encExit, convertResult, startedWithPending,
                  wroteDuringPipeline >>

\* ------------------------------------------------------ convertFramesToVideo
\* Variant: a probe that passes the directory on without naming a frame.
FirstFrameAssumed(dir) == FALSE

\* getFrameDimensions: filenames[0] of an empty listing is undefined and
\* path.join(sessionDir, undefined) throws.
FirstFrameMissing(dir) == DOMAIN dir = {}

\* fs.readdir of getFrameDimensions resolves: either `file` is spawned on the
\* first name of the listing, or the throw is caught and rethrown as
\* 'Error converting frames!'.
ProbeReaddir(s) ==
  /\ pc[s] = "probe_readdir"
  /\ IF dirExists[s] /\ ~FirstFrameMissing(files[s])
     THEN /\ pc' = [pc EXCEPT ![s] = "probing"]
          /\ UNCHANGED << convertResult, failedAt >>
     ELSE /\ pc' = [pc EXCEPT ![s] = "failed"]
          /\ convertResult' = [convertResult EXCEPT ![s] = "error"]
          /\ failedAt' = [failedAt EXCEPT ![s] = "probe"]
  /\ UNCHANGED << clients, ws, registered, sent, doneSignals, dirExists, files,
                  video, pendingWrites, pipelineRuns, sortedFiles,
                  pendingRenames, snapshot, spawns, encExit,
                  startedWithPending, wroteDuringPipeline >>

\* Variant: a probe whose failure is recorded while ffmpeg is spawned all the
\* same, without the size.
ProbeExitSpawnsAnyway(s, matched) ==
  /\ pc[s] = "probing"
  /\ pc' = [pc EXCEPT ![s] = "encoding"]
  /\ spawns' = [spawns EXCEPT ![s] = @ + 1]
  /\ failedAt' = [failedAt EXCEPT ![s] = IF matched THEN @ ELSE "probe"]
  /\ UNCHANGED << clients, ws, registered, sent, doneSignals, dirExists, files,
                  video, pendingWrites, pipelineRuns, sortedFiles,
                  pendingRenames, snapshot, encExit, convertResult,
                  startedWithPending, wroteDuringPipeline >>

\* `file` exits.  With '<w> x <h>' in its output ffmpeg is spawned; without,
\* 'Could not get image dimensions!' is thrown, caught and rethrown.
ProbeExit(s, matched) ==
  /\ pc[s] = "probing"
  /\ IF matched
     THEN /\ pc' = [pc EXCEPT ![s] = "encoding"]
          /\ spawns' = [spawns EXCEPT ![s] = @ + 1]
          /\ UNCHANGED << convertResult, failedAt >>
     ELSE /\ pc' = [pc EXCEPT ![s] = "failed"]
          /\ convertResult' = [convertResult EXCEPT ![s] = "error"]
          /\ failedAt' = [failedAt EXCEPT ![s] = "probe"]
          /\ UNCHANGED spawns
  /\ UNCHANGED << clients, ws, registered, sent, doneSignals, dirExists, files,
                  video, pendingWrites, pipelineRuns, sortedFiles,
                  pendingRenames, snapshot, encExit, startedWithPending,
                  wroteDuringPipeline >>

\* ffmpeg reads 0.png, 1.png, ... up to the first missing index.
RECURSIVE FramesFrom(_, _)
FramesFrom(dir, i) ==
  IF PngName(NumToString(i)) \in DOMAIN dir
  THEN <<dir[PngName(NumToString(i))]>> \o FramesFrom(dir, i + 1)
  ELSE <<>>

\* ffmpeg exits: with status zero it has written the video, otherwise it has
\* left no file or a partial one.  waitForProcess resolves on 'exit' whatever
\* the status (ps.on('exit', () => resolve(data))), so convertFramesToVideo
\* logs 'Created video' and deleteFrames issues fs.rmdir.
EncoderExit(s, kind) ==
  /\ pc[s] = "encoding"
  /\ kind \in {"complete", "partial", "none"}
  /\ kind = "complete" => dirExists[s] /\ FramesFrom(files[s], 0) # <<>>
  /\ encExit' = [encExit EXCEPT ![s] = IF kind = "complete" THEN "zero"
                                       ELSE "nonzero"]
  /\ video' = [video EXCEPT ![s] =
                 [kind |-> kind,
                  frames |-> IF kind = "complete" THEN FramesFrom(files[s], 0)
                             ELSE <<>>]]
  /\ convertResult' = [convertResult EXCEPT ![s] = "created"]
  /\ pc' = [pc EXCEPT ![s] = "deleting"]
  /\ UNCHANGED << clients, ws, registered, sent, doneSignals, dirExists, files,
                  pendingWrites, pipelineRuns, sortedFiles, pendingRenames,
                  snapshot, spawns, failedAt, startedWithPending,
                  wroteDuringPipeline >>

\* ffmpeg could not be started: ps.on('error', reject), and the catch block
\* throws 'Error converting frames!'.
EncoderError(s) ==
  /\ pc[s] = "encoding"
  /\ pc' = [pc EXCEPT ![s] = "failed"]
  /\ convertResult' = [convertResult EXCEPT ![s] = "error"]
  /\ failedAt' = [failedAt EXCEPT ![s] = "convert"]
  /\ UNCHANGED << clients, ws, registered, sent, doneSignals, dirExists, files,
                  video, pendingWrites, pipelineRuns, sortedFiles,
                  pendingRenames, snapshot, spawns, encExit,
                  startedWithPending, wroteDuringPipeline >>

\* -------------------------------------------------------------- deleteFrames
\* Variant: a deletion that removes the output root's entries of the session,
\* the video with the directory.
DeleteDoneRemovesVideo(s) ==
  /\ pc[s] = "deleting"
  /\ dirExists' = [dirExists EXCEPT ![s] = FALSE]
  /\ files' = [files EXCEPT ![s] = EmptyDir]
  /\ video' = [video EXCEPT ![s] = NoVideo]
  /\ pc' = [pc EXCEPT ![s] = "done"]
  /\ UNCHANGED << clients, ws, registered, sent, doneSignals, pendingWrites,
                  pipelineRuns, sortedFiles, pendingRenames, snapshot, spawns,
                  encExit, convertResult, failedAt, startedWithPending,
                  wroteDuringPipeline >>

\* Variant: a deletion of the output root, which holds every session.
DeleteDoneRemovesRoot(s) ==
  /\ pc[s] = "deleting"
  /\ dirExists' = [t \in Sessions |-> FALSE]
  /\ files' = [t \in Sessions |-> EmptyDir]
  /\ video' = [t \in Sessions |-> NoVideo]
  /\ pc' = [pc EXCEPT ![s] = "done"]
  /\ UNCHANGED << clients, ws, registered, sent, doneSignals, pendingWrites,
                  pipelineRuns, sortedFiles, pendingRenames, snapshot, spawns,
                  encExit, convertResult, failedAt, startedWithPending,
                  wroteDuringPipeline >>

\* fs.rmdir(sessionDir, { recursive: true }) resolves.
DeleteDone(s) ==
  /\ pc[s] = "deleting"
  /\ dirExists' = [dirExists EXCEPT ![s] = FALSE]
  /\ files' = [files EXCEPT ![s] = EmptyDir]
  /\ pc' = [pc EXCEPT ![s] = "done"]
  /\ UNCHANGED << clients, ws, registered, sent, doneSignals, video,
                  pendingWrites, pipelineRuns, sortedFiles, pendingRenames,
                  snapshot, spawns, encExit, convertResult, failedAt,
                  startedWithPending, wroteDuringPipeline >>

\* fs.rmdir is rejected: the rejection leaves the close handler's function.
DeleteFails(s) ==
  /\ pc[s] = "deleting"
  /\ pc' = [pc EXCEPT ![s] = "failed"]
  /\ failedAt' = [failedAt EXCEPT ![s] = "delete"]
  /\ UNCHANGED << clients, ws, registered, sent, doneSignals, dirExists, files,
                  video, pendingWrites, pipelineRuns, sortedFiles,
                  pendingRenames, snapshot, spawns, encExit, convertResult,
                  startedWithPending, wroteDuringPipeline >>

\* ------------------------------------------------------------ specification
\* What happens to one connection apart from the messages its client sends.
Step(s) ==
    \/ Connect(s)
    \/ MkdirDone(s)
    \/ Close(s)
    \/ \E w \in pendingWrites[s] : WriteLands(s, w)
    \/ \E w \in pendingWrites[s], d \in UndefinedDataContents :
         WriteUndefinedLeavesFile(s, w, d)
    \/ \E w \in pendingWrites[s] : WriteFails(s, w)
    \/ \E l \in Orderings(DOMAIN files[s]) : SortReaddir(s, l)
    \/ SortReaddirFails(s)
    \/ \E r \in pendingRenames[s] : RenameLands(s, r)
    \/ \E r \in pendingRenames[s] : RenameFails(s, r)
    \/ ProbeReaddir(s)
    \/ \E m \in BOOLEAN : ProbeExit(s, m)
    \/ \E k \in {"complete", "partial", "none"} : EncoderExit(s, k)
    \/ EncoderError(s)
    \/ DeleteDone(s)
    \/ DeleteFails(s)

Next ==
  \E s \in Sessions :
    \/ Step(s)
    \/ \E msg \in Messages : Send(s, msg)

Spec == Init /\ [][Next]_vars

\* An fs.readdir that was issued is answered: libuv runs every queued request.
Fairness == \A s \in Sessions : WF_vars(ProbeReaddir(s))

FairSpec == Spec /\ Fairness

\* Two connections at once (wss.on('connection') runs handleClientConnection
\* for each).  Each client sends up to MultiFrames messages: frames, which
\* it numbers from 0 as example/index.html does, with a payload of its own;
\* the client of s2 may end with text that has no header.
MultiFrames == 1

MultiMessages(s) ==
  {FrameMsg(NumToString(sent[s]),
            IF s = "s1" THEN <<"Q", "Q", "=", "=">> ELSE <<"Q", "g", "=", "=">>)}
    \cup (IF s = "s2" /\ sent[s] + 1 = MultiFrames THEN {DoneMsg} ELSE {})

MultiInit == InitWith(Sessions)

MultiNext ==
  \E s \in Sessions :
    \/ Step(s)
    \/ \E msg \in MultiMessages(s) : sent[s] < MultiFrames /\ Send(s, msg)

MultiSpec == MultiInit /\ [][MultiNext]_vars

\* ================================================================== claims
\* The key a stored frame's name carries, and its rank among a directory's
\* keys (the number of keys below it).
KeyOf(name) == SubSeq(name, 1, Len(name) - 1)

KeyNumber(name) == ToNumber(KeyOf(name))

NumericDistinct(dir) ==
  /\ \A n \in DOMAIN dir : IsNumeric(KeyOf(n))
  /\ \A n, m \in DOMAIN dir : n # m => KeyNumber(n) # KeyNumber(m)

Rank(dir, name) ==
  Cardinality({m \in DOMAIN dir : KeyNumber(m) < KeyNumber(name)})

IndexName(i) == PngName(NumToString(i))

\* sortFrameFiles has returned and the directory has not been deleted yet.
SortFinished(s) ==
  pc[s] \in {"probe_readdir", "probing", "encoding", "deleting"}

\* sortFrameFiles has sorted its listing.
Sorted(s) ==
  /\ pipelineRuns[s] > 0
  /\ pc[s] # "sort_readdir"
  /\ ~(failedAt[s] = "sort" /\ sortedFiles[s] = <<>>)

\* C1: for frames with pairwise distinct numeric keys, all stored before the
\* session ends, once sortFrameFiles has finished the directory holds exactly
\* 0.png .. (N-1).png and i.png holds what was stored under the i-th
\* smallest key.
C1_SequencedInKeyOrder ==
  \A s \in Sessions :
    (SortFinished(s) /\ ~startedWithPending[s] /\ NumericDistinct(snapshot[s]))
      => /\ DOMAIN files[s] =
              {IndexName(i) : i \in 0..(Cardinality(DOMAIN snapshot[s]) - 1)}
         /\ \A n \in DOMAIN snapshot[s] :
              files[s][IndexName(Rank(snapshot[s], n))] = snapshot[s][n]

\* C2: while and after sortFrameFiles renames, whatever the order in which
\* the renames take effect, no frame is overwritten: the directory holds as
\* many files as before sequencing.
C2_NoFrameLost ==
  \A s \in Sessions :
    ((pc[s] = "renaming" \/ SortFinished(s)) /\ ~startedWithPending[s])
      => Cardinality(DOMAIN files[s]) = Cardinality(DOMAIN snapshot[s])

\* C3: the pipeline starts only when every frame write issued so far has
\* settled, and no frame write takes effect while the pipeline is running.
C3_PipelineAfterWrites ==
  \A s \in Sessions : ~startedWithPending[s] /\ ~wroteDuringPipeline[s]

\* C4: once the pipeline has ended, with or without an error in sequencing,
\* probing or encoding, deleteFrames has run and the session directory does
\* not exist.
C4_CleanupAlways ==
  \A s \in Sessions :
    (Completed(s) /\ failedAt[s] # "delete")
      => /\ pc[s] = "done"
         /\ ~dirExists[s]

C6_NonzeroExitIsFailure ==
  \A s \in Sessions : encExit[s] = "nonzero" => convertResult[s] = "error"

\* C7: for distinct numeric keys the sorted listing holds the names in
\* ascending numeric key order, whatever order fs.readdir listed them in, and
\* each rename issued takes the name with the i-th smallest key to i.png.
C7_NumericOrder ==
  \A s \in Sessions :
    (Sorted(s) /\ NumericDistinct(snapshot[s]))
      => /\ Len(sortedFiles[s]) = Cardinality(DOMAIN snapshot[s])
         /\ \A i \in 1..Len(sortedFiles[s]) :
              /\ sortedFiles[s][i] \in DOMAIN snapshot[s]
              /\ Rank(snapshot[s], sortedFiles[s][i]) = i - 1
         /\ \A r \in pendingRenames[s] :
              r.dst = IndexName(Rank(snapshot[s], r.src))

C7_Witness ==
  \E s \in Sessions :
    /\ sortedFiles[s] = <<PngName(<<"2">>), PngName(<<"1", "0">>)>>
    /\ pendingRenames[s] =
         {[src |-> PngName(<<"2">>), dst |-> IndexName(0)],
          [src |-> PngName(<<"1", "0">>), dst |-> IndexName(1)]}

\* C8: the encoder is spawned only after sortFrameFiles has sorted and every
\* rename it issued has settled, and the session directory is deleted only
\* after the encoder has exited.
C8_StepOrder ==
  \A s \in Sessions :
    /\ spawns[s] > 0 => Sorted(s) /\ pc[s] # "renaming" /\ pendingRenames[s] = {}
    /\ (pc[s] \in {"deleting", "done"} \/ failedAt[s] = "delete")
         => spawns[s] > 0 /\ encExit[s] # "none"
    /\ (registered[s] /\ ~dirExists[s]) => encExit[s] # "none"

C8_Witness ==
  \E s \in Sessions :
    /\ pc[s] = "done"
    /\ ~dirExists[s]
    /\ Len(sortedFiles[s]) = 2
    /\ sortedFiles[s][1] # IndexName(0)
    /\ encExit[s] = "zero"

\* C9: on a session directory without frames sortFrameFiles returns an empty
\* listing without an error and issues no rename; convertFramesToVideo then
\* fails with an error before any process is spawned, and no video exists.
EmptySession(s) ==
  /\ Sorted(s)
  /\ failedAt[s] # "sort"
  /\ ~startedWithPending[s]
  /\ snapshot[s] = EmptyDir

EmptySessionSafe ==
  \A s \in Sessions :
    EmptySession(s)
      => /\ sortedFiles[s] = <<>>
         /\ pendingRenames[s] = {}
         /\ pc[s] \in {"probe_readdir", "failed"}
         /\ pc[s] = "failed" =>
              failedAt[s] = "probe" /\ convertResult[s] = "error"
         /\ spawns[s] = 0
         /\ video[s] = NoVideo

\* C9 (see above), and the pipeline of such a session comes to its end: it
\* does not wait forever.
C9_EmptySessionFails ==
  /\ []EmptySessionSafe
  /\ \A s \in Sessions : EmptySession(s) ~> (pc[s] = "failed")

C9_Witness ==
  \E s \in Sessions : EmptySession(s) /\ pc[s] = "failed" /\ sent[s] = 0

\* The text before the first header of a message, the text after it, and the
\* text from there up to the next header.
FirstMarker(msg) ==
  CHOOSE i \in 1..Len(msg) :
    msg[i] = MARK /\ \A j \in 1..(i - 1) : msg[j] # MARK

TextBefore(msg) == SubSeq(msg, 1, FirstMarker(msg) - 1)

TextAfter(msg) == SubSeq(msg, FirstMarker(msg) + 1, Len(msg))

UpToMarker(str) ==
  IF \E i \in 1..Len(str) : str[i] = MARK
  THEN SubSeq(str, 1, FirstMarker(str) - 1)
  ELSE str

\* The header literal read as text, character by character.
RECURSIVE AsText(_)
AsText(str) ==
  IF str = <<>> THEN <<>>
  ELSE IF Head(str) = MARK THEN MarkerChars \o AsText(Tail(str))
  ELSE <<Head(str)>> \o AsText(Tail(str))

\* C10 as stated: a write that takes effect changes the directory in one
\* file only, <key>.png, the key being the text before the first header, and
\* leaves there the decoding of all the text after the first header.
C10_WholeRemainderWritten ==
  [][\A s \in Sessions : \A w \in pendingWrites[s] :
       WriteLands(s, w) =>
         files'[s] = Put(files[s], PngName(TextBefore(w.msg)),
                         Base64Decode(AsText(TextAfter(w.msg))))]_vars

\* C10 amended: the payload is the text between the first header and the
\* next one (all the text after the first header when there is no other).
C10_SegmentWritten ==
  [][\A s \in Sessions : \A w \in pendingWrites[s] :
       WriteLands(s, w) =>
         files'[s] = Put(files[s], PngName(TextBefore(w.msg)),
                         Base64Decode(UpToMarker(TextAfter(w.msg))))]_vars

C10_Witness ==
  \E s \in Sessions :
    /\ PngName(<<"1">>) \in DOMAIN files[s]
    /\ files[s][PngName(<<"1">>)] = <<65, 65, 65>>
    /\ pc[s] = "idle"

\* C11: when two messages of a session carry the same key and both writes
\* have settled, <key>.png holds the payload of the message that arrived
\* later: a write that settles after the write of a later message to the same
\* file leaves that file as the later message wrote it.
C11_LaterArrivalWins ==
  [][\A s \in Sessions : \A w \in pendingWrites[s] :
       (pc[s] = "idle" /\ w.overtaken /\ WriteLands(s, w)) =>
         files'[s][FramePath(w.msg)] = files[s][FramePath(w.msg)]]_vars

\* C12: a message whose storage fails loses only its own frame.  The failed
\* write leaves every other file of the session as it was, leaves the writes
\* of the other messages in flight and the connection's handlers attached
\* (so later frames are still taken), and the close of a session that took a
\* message without the header still starts the pipeline.
StorageFails(s, w) ==
  \/ WriteFails(s, w)
  \/ \E d \in UndefinedDataContents : WriteUndefinedLeavesFile(s, w, d)

OthersKept(s, w) ==
  /\ pendingWrites'[s] = pendingWrites[s] \ {w}
  /\ \A n \in DOMAIN files[s] \ {FramePath(w.msg)} :
       n \in DOMAIN files'[s] /\ files'[s][n] = files[s][n]
  /\ registered'[s] = registered[s]
  /\ ws'[s] = ws[s]
  /\ pc'[s] = pc[s]

CloseStartsPipeline(s) ==
  (ws[s] = "open" /\ ws'[s] = "closed" /\ registered[s]) =>
    (pc'[s] = "sort_readdir" /\ pipelineRuns'[s] = pipelineRuns[s] + 1)

C12_FailureLosesOneFrame ==
  /\ [](\A s \in Sessions :
         (doneSignals[s] > 0 /\ ws[s] = "closed") => pipelineRuns[s] = 1)
  /\ [][\A s \in Sessions :
          /\ \A w \in pendingWrites[s] : StorageFails(s, w) => OthersKept(s, w)
          /\ CloseStartsPipeline(s)]_vars

\* A header-less message was taken and its write left nothing, the frame of
\* the other message is stored, and the close has started the pipeline.
C12_Witness ==
  \E s \in Sessions :
    /\ doneSignals[s] = 1
    /\ pendingWrites[s] = {}
    /\ DOMAIN files[s] = {PngName(<<"1">>)}
    /\ pc[s] = "sort_readdir"

\* C13: when sequencing is rejected or getFrameDimensions does not yield the
\* size of the first frame, the pipeline has ended with that error, no ffmpeg
\* process was spawned for the session and no video exists.
C13_NoEncoderAfterFailedPreparation ==
  \A s \in Sessions :
    failedAt[s] \in {"sort", "probe"} =>
      /\ pc[s] = "failed"
      /\ spawns[s] = 0
      /\ encExit[s] = "none"
      /\ video[s] = NoVideo
      /\ failedAt[s] = "probe" => convertResult[s] = "error"

\* `file` ran on a stored frame and printed no size.
C13_Witness ==
  \E s \in Sessions :
    /\ failedAt[s] = "probe"
    /\ dirExists[s]
    /\ DOMAIN files[s] # {}
    /\ sortedFiles[s] # <<>>

\* C14: a failing deletion of the session directory is not raised: once
\* deleteFrames has been called (ffmpeg has exited) and the pipeline has
\* ended, it has ended without an error, whether or not the directory went.
C14_DeleteFailureNotRaised ==
  \A s \in Sessions :
    (Completed(s) /\ encExit[s] # "none") =>
      (pc[s] = "done" /\ failedAt[s] = "none")

\* C15: deleteFrames removes the session directory and nothing else: the
\* step that deletes the directory leaves the video as it was, and after a
\* pipeline whose ffmpeg exited with status zero has ended, the video of the
\* session exists, complete.
C15_VideoSurvivesCleanup ==
  /\ [](\A s \in Sessions :
         (pc[s] = "done" /\ encExit[s] = "zero") =>
           (video[s].kind = "complete" /\ video[s].frames # <<>>))
  /\ [][\A s \in Sessions :
          (pc[s] = "deleting" /\ pc'[s] # "deleting") => video'[s] = video[s]]_vars

C15_Witness ==
  \E s \in Sessions :
    /\ pc[s] = "done"
    /\ ~dirExists[s]
    /\ video[s].kind = "complete"
    /\ Len(video[s].frames) = MaxFrames

\* C16: with several sessions active, whatever one connection does (a
\* message, a write or rename settling or failing, the probe, ffmpeg, the
\* deletion, the close) leaves the directory, the frame files, the video and
\* the operations in flight of every other session as they were.
ActsOn(t) == Step(t) \/ \E msg \in Messages : Send(t, msg)

Untouched(s) ==
  /\ dirExists'[s] = dirExists[s]
  /\ files'[s] = files[s]
  /\ video'[s] = video[s]
  /\ pendingWrites'[s] = pendingWrites[s]
  /\ pendingRenames'[s] = pendingRenames[s]

C16_SessionsIsolated ==
  [][\A t \in Sessions :
       ActsOn(t) => \A s \in Sessions \ {t} : Untouched(s)]_vars

\* One session's pipeline has made its video and deleted its directory while
\* the other session, still open, holds a stored frame.
C16_Witness ==
  \E s \in Sessions, t \in Sessions :
    /\ s # t
    /\ pc[s] = "done"
    /\ video[s].kind = "complete"
    /\ pc[t] = "idle"
    /\ dirExists[t]
    /\ DOMAIN files[t] # {}

\* C17: a connection that closes starts the pipeline, whenever after the
\* open the close comes.  Nothing but the close event starts it, so once the
\* connection has closed and handleClientConnection has run to its end (the
\* directory is made, the listeners are attached) the pipeline has started.
C17_CloseAlwaysStartsPipeline ==
  \A s \in Sessions :
    (ws[s] = "closed" /\ registered[s]) => pipelineRuns[s] >= 1

\* The place of a name in the sorted listing, and the rename issued for the
\* name at a place.
PosOf(s, name) ==
  CHOOSE i \in 1..Len(sortedFiles[s]) : sortedFiles[s][i] = name

RenameAt(s, i) ==
  CHOOSE r \in RenamesOf(sortedFiles[s]) : r.src = sortedFiles[s][i]

\* The directory after the renames of the first k places have taken effect
\* one after the other: 0.png .. (k-1).png hold the frames of the k smallest
\* keys and the other frames are under their old names.
Unrenamed(s, k) ==
  {sortedFiles[s][i] : i \in (k + 1)..Len(sortedFiles[s])}

AfterFirst(s, k) ==
  [n \in Unrenamed(s, k) \cup {IndexName(i - 1) : i \in 1..k} |->
     IF n \in Unrenamed(s, k) THEN snapshot[s][n]
     ELSE snapshot[s][sortedFiles[s][ToNumber(KeyOf(n)) + 1]]]

\* The renames have taken effect in ascending order up to place k, the others
\* are in flight, and no write came in between.
InOrder(s, k) ==
  /\ Sorted(s)
  /\ sortedFiles[s] # <<>>
  /\ k \in 0..Len(sortedFiles[s])
  /\ ~startedWithPending[s]
  /\ NumericDistinct(snapshot[s])
  /\ pendingRenames[s] =
       {RenameAt(s, i) : i \in (k + 1)..Len(sortedFiles[s])}
  /\ files[s] = AfterFirst(s, k)

\* C18: for distinct non-negative integer keys, the i-th rename's target
\* index never exceeds the i-th smallest key; and when the renames take
\* effect one at a time in ascending sorted order, the target of the next
\* rename is not the name of a file still to be renamed, the directory keeps
\* all its files, and the renames up to that place have gone as sorted.
C18_AscendingRenamesNeverCollide ==
  /\ [](\A s \in Sessions :
         (Sorted(s) /\ NumericDistinct(snapshot[s])) =>
           \A i \in 1..Len(sortedFiles[s]) :
             /\ IsNumeric(KeyOf(RenameAt(s, i).dst))
             /\ KeyNumber(RenameAt(s, i).dst) <= KeyNumber(sortedFiles[s][i]))
  /\ [][\A s \in Sessions : \A k \in 0..(MaxFrames - 1) :
          (InOrder(s, k) /\ k < Len(sortedFiles[s])
             /\ RenameLands(s, RenameAt(s, k + 1))) =>
            /\ RenameAt(s, k + 1).dst \notin Unrenamed(s, k + 1)
            /\ Cardinality(DOMAIN files'[s]) = Cardinality(DOMAIN snapshot[s])
            /\ InOrder(s, k + 1)']_vars

\* Frames 1 and 2: the first rename has made 0.png, the second, to the name
\* the first one left, is in flight.
C18_Witness ==
  \E s \in Sessions :
    /\ sortedFiles[s] = <<PngName(<<"1">>), PngName(<<"2">>)>>
    /\ InOrder(s, 1)
    /\ pc[s] = "renaming"
    /\ DOMAIN files[s] = {IndexName(0), PngName(<<"2">>)}

\* The directory sortFrameFiles listed was already named 0.png .. (n-1).png.
AlreadySequenced(s) ==
  /\ Sorted(s)
  /\ snapshot[s] # EmptyDir
  /\ DOMAIN snapshot[s] =
       {IndexName(i) : i \in 0..(Cardinality(DOMAIN snapshot[s]) - 1)}

\* C19: sequencing a directory already named 0.png .. (n-1).png leaves every
\* file under its name with its content, in whatever order the renames take
\* effect: every rename issued has its source as target, and while and after
\* the renames settle the directory is as it was listed.
C19_SequencingIsIdempotent ==
  \A s \in Sessions :
    (AlreadySequenced(s) /\ ~startedWithPending[s] /\ dirExists[s]) =>
      /\ \A r \in RenamesOf(sortedFiles[s]) : r.dst = r.src
      /\ files[s] = snapshot[s]

\* Frames 0 and 1 were stored and both renames have settled.
C19_Witness ==
  \E s \in Sessions :
    /\ AlreadySequenced(s)
    /\ ~startedWithPending[s]
    /\ DOMAIN snapshot[s] = {IndexName(0), IndexName(1)}
    /\ snapshot[s][IndexName(0)] # snapshot[s][IndexName(1)]
    /\ pc[s] = "probe_readdir"
    /\ pendingRenames[s] = {}

\* A message of the session was handed to writeFrameToFile in this step.
WriteIssued(s) ==
  /\ sent'[s] # sent[s]
  /\ \E w \in pendingWrites'[s] : w.seq = sent'[s]

\* C20: the listeners of a connection are attached only once its directory
\* has been made (it exists, or the pipeline has since deleted it), a write
\* is in flight only for a connection with listeners, and at the moment a
\* write is issued or the close handler starts, the directory exists.
C20_DirectoryBeforeHandlers ==
  /\ [](\A s \in Sessions :
         /\ registered[s] => (dirExists[s] \/ pc[s] = "done")
         /\ pendingWrites[s] # {} => registered[s])
  /\ [][\A s \in Sessions :
          (WriteIssued(s) \/ pipelineRuns'[s] # pipelineRuns[s]) =>
            (registered[s] /\ dirExists[s])]_vars

\* A write was issued, in a directory made before the listeners took it.
C20_Witness ==
  \E s \in Sessions :
    /\ registered[s]
    /\ dirExists[s]
    /\ pc[s] = "idle"
    /\ \E w \in pendingWrites[s] : w.seq = 1

====
